---- MODULE Spec2Model ----
(***************************************************************************)
(* Forward-chaining inference engine (src/src/inference.py) run over the   *)
(* shipped knowledge base (src/src/kb.py) and over small test rule lists.  *)
(*                                                                         *)
(* Numbers: HP percentages and move scores are the Python floats' values   *)
(* (only integral ones are drawn); an effectiveness multiplier is kept in  *)
(* hundredths, as type_efficacy.csv stores it (200 is x2.0, 50 is x0.5).   *)
(***************************************************************************)
EXTENDS Integers, Sequences, FiniteSets, TLC

VARIABLES
    rules,        \* forward_chain's `rules` argument: a sequence of rule names
    max_loops,    \* forward_chain's `max_loops` argument
    facts,        \* the fact store (a dict: a function on the keys present)
    input,        \* the fact store as it was handed to the first call
    fired,        \* the local set `fired`
    trace,        \* the local list `trace`
    loop,         \* number of sweeps begun (iterations of `for _ in range(max_loops)`)
    idx,          \* position of the inner `for r in rules` (1-based)
    fired_any,    \* the local flag `fired_any`
    pc,           \* control point of the call
    fired_rules,  \* InferenceResult.fired_rules once returned
    invoked,      \* observer: how often each rule's action was invoked in this call
    firedAt,      \* observer: the sweep number in which each rule fired (0: not fired)
    call,         \* which call of forward_chain on this store is running (1, 2)
    prev,         \* observer: what the previous call returned
    shown,        \* main(): the local list `recos`, the recommendations as displayed
    adv           \* a call of has_type_advantage: its arguments and what it returned

vars == <<rules, max_loops, facts, input, fired, trace, loop, idx, fired_any,
          pc, fired_rules, invoked, firedAt, call, prev, shown, adv>>

(***************************************************************************)
(* Bounds of the model and constants of the program                        *)
(***************************************************************************)
MaxLoopsBound == 3      \* test rule lists run with max_loops in 0..MaxLoopsBound
MaxRules == 3           \* test rule lists hold at most MaxRules rules
MaxPermLen == 3         \* every order of a set of up to MaxPermLen names is drawn
DefaultMaxLoops == 20   \* forward_chain(..., max_loops: int = 20)

(***************************************************************************)
(* Dict access                                                             *)
(***************************************************************************)
None == [none |-> TRUE]
KeyError == "KeyError"

Has(f, k) == k \in DOMAIN f

\* f.get(k, d)
Get(f, k, d) == IF Has(f, k) THEN f[k] ELSE d

\* truthiness of f.get(k) for a boolean-valued key (absent: None, falsy)
Truthy(f, k) == Has(f, k) /\ f[k] = TRUE

\* truthiness of f.get(k) for a string-valued key (absent or "": falsy)
TruthyStr(f, k) == Has(f, k) /\ f[k] # ""

\* f[k] = v : insert or overwrite
SetItem(f, k, v) == (k :> v) @@ f

\* f.get("best_move") is not None
BestMoveKnown(f) == Has(f, "best_move") /\ f["best_move"] # None

\* the outcome of evaluating a condition: "True", "False" or KeyError
Cond(b) == IF b THEN "True" ELSE "False"

(***************************************************************************)
(* kb.py: add_reco, compute_best_move                                      *)
(***************************************************************************)
\* facts["recommendations"].insert(0, ...)
add_reco_AtFront(f, text, priority) ==
    LET g == IF Has(f, "recommendations") THEN f
             ELSE SetItem(f, "recommendations", <<>>)
    IN  SetItem(g, "recommendations",
                <<[text |-> text, priority |-> priority]>> \o g["recommendations"])

add_reco(f, text, priority) ==
    LET g == IF Has(f, "recommendations") THEN f
             ELSE SetItem(f, "recommendations", <<>>)
    IN  SetItem(g, "recommendations",
                Append(g["recommendations"], [text |-> text, priority |-> priority]))

\* m.get("score", 0.0)
Score(m) == IF "score" \in DOMAIN m THEN m.score ELSE 0

\* max(moves, key=score): the first element whose key no later element exceeds
\* strictly; scanned left to right, `best` replaced only by a strictly larger key
RECURSIVE MaxFrom(_, _, _)
MaxFrom(moves, i, best) ==
    IF i > Len(moves) THEN best
    ELSE MaxFrom(moves, i + 1, IF Score(moves[i]) > Score(best) THEN moves[i] ELSE best)

\* the last of the candidates of maximal score instead of the first
RECURSIVE MaxFrom_LastWins(_, _, _)
MaxFrom_LastWins(moves, i, best) ==
    IF i > Len(moves) THEN best
    ELSE MaxFrom_LastWins(moves, i + 1,
                          IF Score(moves[i]) >= Score(best) THEN moves[i] ELSE best)

compute_best_move_LastMax(f) ==
    LET moves == Get(f, "my_moves", <<>>)
    IN  IF Len(moves) = 0 THEN None ELSE MaxFrom_LastWins(moves, 2, moves[1])

compute_best_move(f) ==
    LET moves == Get(f, "my_moves", <<>>)
    IN  IF Len(moves) = 0 THEN None ELSE MaxFrom(moves, 2, moves[1])

\* all(m.get("score", 0.0) < 30 for m in moves)
AllScoresBelow(moves, limit) == \A i \in 1..Len(moves) : Score(moves[i]) < limit

\* str.capitalize() on the species identifiers drawn below
Capitalize(s) ==
    CASE s = "charizard" -> "Charizard"
      [] s = "blastoise" -> "Blastoise"
      [] s = "arcanine"  -> "Arcanine"
      [] OTHER           -> s

(***************************************************************************)
(* kb.py: rules() -- the conditions (`when`) of the shipped rules.  Python *)
(* `and` short-circuits, so f["k"] raises KeyError only when it is reached.*)
(***************************************************************************)
R1_when(f) ==
    IF ~Has(f, "my_hp_pct") THEN KeyError
    ELSE Cond(f["my_hp_pct"] >= 60 /\ Truthy(f, "my_advantage"))

\* R2 with a strict bound on own HP
R2_when_StrictHp(f) ==
    IF ~Has(f, "my_hp_pct") THEN KeyError
    ELSE Cond(f["my_hp_pct"] < 35 /\ Truthy(f, "enemy_advantage"))

R2_when(f) ==
    IF ~Has(f, "my_hp_pct") THEN KeyError
    ELSE Cond(f["my_hp_pct"] <= 35 /\ Truthy(f, "enemy_advantage"))

R3_when(f) ==
    IF ~Has(f, "enemy_hp_pct") THEN KeyError
    ELSE Cond(f["enemy_hp_pct"] <= 25 /\ Truthy(f, "my_advantage"))

\* R4 with a strict bound on own HP
R4_when_StrictHp(f) ==
    IF ~Has(f, "my_hp_pct") THEN KeyError
    ELSE IF ~(f["my_hp_pct"] > 50) THEN "False"
    ELSE IF ~Has(f, "enemy_hp_pct") THEN KeyError
    ELSE Cond(/\ f["enemy_hp_pct"] >= 50
              /\ ~Truthy(f, "my_advantage")
              /\ ~Truthy(f, "enemy_advantage"))

R4_when(f) ==
    IF ~Has(f, "my_hp_pct") THEN KeyError
    ELSE IF ~(f["my_hp_pct"] >= 50) THEN "False"
    ELSE IF ~Has(f, "enemy_hp_pct") THEN KeyError
    ELSE Cond(/\ f["enemy_hp_pct"] >= 50
              /\ ~Truthy(f, "my_advantage")
              /\ ~Truthy(f, "enemy_advantage"))

R5_when(f) ==
    IF ~Has(f, "my_hp_pct") THEN KeyError
    ELSE IF ~(f["my_hp_pct"] <= 30) THEN "False"
    ELSE IF ~Has(f, "enemy_hp_pct") THEN KeyError
    ELSE Cond(f["enemy_hp_pct"] <= 30)

\* D1 without the test for a non-empty move list
D1_when_NoLenCheck(f) == Cond(~Has(f, "best_move"))

\* D1 deriving the best move whenever there are candidates
D1_when_Recompute(f) == Cond(Len(Get(f, "my_moves", <<>>)) > 0)

D1_when(f) ==
    Cond(~Has(f, "best_move") /\ Len(Get(f, "my_moves", <<>>)) > 0)

\* R6 with a strict bound on the effectiveness
R6_when_Strict(f) ==
    Cond(BestMoveKnown(f) /\ f["best_move"].eff > 200)

R6_when(f) ==
    Cond(BestMoveKnown(f) /\ f["best_move"].eff >= 200)

\* R7 taking the lower bound 0.5 into the neutral tier
R7_when_Inclusive(f) ==
    Cond(BestMoveKnown(f) /\ 50 <= f["best_move"].eff /\ f["best_move"].eff < 200)

R7_when(f) ==
    Cond(BestMoveKnown(f) /\ 50 < f["best_move"].eff /\ f["best_move"].eff < 200)

R8_when(f) ==
    IF ~(BestMoveKnown(f) /\ f["best_move"].eff <= 50) THEN "False"
    ELSE IF ~Has(f, "enemy_hp_pct") THEN KeyError
    ELSE Cond(f["enemy_hp_pct"] >= 40)

R9_when(f) ==
    IF ~Has(f, "my_hp_pct") THEN KeyError
    ELSE Cond(/\ f["my_hp_pct"] <= 25
              /\ Truthy(f, "has_defensive_move")
              /\ (~BestMoveKnown(f) \/ f["best_move"].eff < 200))

\* R10 asking for the speed advantage as well
R10_when_NeedsFaster(f) ==
    IF ~Has(f, "enemy_hp_pct") THEN KeyError
    ELSE Cond(/\ f["enemy_hp_pct"] <= 25
              /\ Truthy(f, "has_priority_move")
              /\ Truthy(f, "is_faster"))

R10_when(f) ==
    IF ~Has(f, "enemy_hp_pct") THEN KeyError
    ELSE Cond(f["enemy_hp_pct"] <= 25 /\ Truthy(f, "has_priority_move"))

R11_when(f) ==
    IF ~Has(f, "my_hp_pct") THEN KeyError
    ELSE Cond(/\ f["my_hp_pct"] <= 40
              /\ Truthy(f, "is_slower")
              /\ Truthy(f, "enemy_advantage"))

\* R12 asking for own HP >= 60
R12_when_HighHp(f) ==
    IF ~Has(f, "my_hp_pct") THEN KeyError
    ELSE Cond(/\ f["my_hp_pct"] >= 60
              /\ Truthy(f, "is_faster")
              /\ BestMoveKnown(f)
              /\ f["best_move"].eff >= 100)

R12_when(f) ==
    IF ~Has(f, "my_hp_pct") THEN KeyError
    ELSE Cond(/\ f["my_hp_pct"] >= 40
              /\ Truthy(f, "is_faster")
              /\ BestMoveKnown(f)
              /\ f["best_move"].eff >= 100)

R13_when(f) ==
    IF ~Has(f, "my_hp_pct") THEN KeyError
    ELSE IF ~(40 <= f["my_hp_pct"] /\ f["my_hp_pct"] <= 80) THEN "False"
    ELSE IF ~Has(f, "enemy_hp_pct") THEN KeyError
    ELSE Cond(/\ 40 <= f["enemy_hp_pct"] /\ f["enemy_hp_pct"] <= 80
              /\ Truthy(f, "is_faster")
              /\ BestMoveKnown(f)
              /\ f["best_move"].eff >= 200)

R14_when(f) ==
    Cond(/\ Len(Get(f, "my_moves", <<>>)) > 0
         /\ AllScoresBelow(f["my_moves"], 30))

\* R15 looking only for an absent my_moves key
R15_when_MissingKeyOnly(f) ==
    Cond(~Has(f, "my_moves"))

R15_when(f) ==
    Cond(Len(Get(f, "my_moves", <<>>)) = 0)

R16_when(f) ==
    Cond(/\ Len(Get(f, "my_types", <<>>)) > 0
         /\ Len(Get(f, "enemy_types", <<>>)) > 0
         /\ f["my_types"][1] = f["enemy_types"][1]
         /\ ~Truthy(f, "my_advantage")
         /\ ~Truthy(f, "enemy_advantage"))

R17_when(f) ==
    Cond(/\ TruthyStr(f, "my_pokemon")
         /\ TruthyStr(f, "enemy_pokemon")
         /\ Truthy(f, "my_advantage"))

(***************************************************************************)
(* kb.py: rules() -- the actions (`then`).  A recommendation's text is the *)
(* rule's fixed sentence, written here as the rule's tag, followed by the  *)
(* values the f-string interpolates.                                       *)
(***************************************************************************)
R1_then(f)  == add_reco(f, <<"R1">>, 80)
R2_then(f)  == add_reco(f, <<"R2">>, 95)
R3_then(f)  == add_reco(f, <<"R3">>, 90)
R4_then(f)  == add_reco(f, <<"R4">>, 50)
R5_then(f)  == add_reco(f, <<"R5">>, 70)
\* D1 taking the best move out of the candidate list (moves.sort(); moves.pop())
D1_then_PopBest(f) ==
    LET best == compute_best_move(f)
    IN  SetItem(SetItem(f, "best_move", best),
                "my_moves", SelectSeq(f["my_moves"], LAMBDA m : m # best))

D1_then(f)  == SetItem(f, "best_move", compute_best_move(f))
R6_then(f)  == add_reco(f, <<"R6", f["best_move"].name, ToString(f["best_move"].eff)>>, 92)
R7_then(f)  == add_reco(f, <<"R7", f["best_move"].name>>, 75)
R8_then(f)  == add_reco(f, <<"R8">>, 85)
R9_then(f)  == add_reco(f, <<"R9">>, 88)
R10_then(f) == add_reco(f, <<"R10">>, 93)
R11_then(f) == add_reco(f, <<"R11">>, 97)
R12_then(f) == add_reco(f, <<"R12">>, 78)
R13_then(f) == add_reco(f, <<"R13">>, 89)
R14_then(f) == add_reco(f, <<"R14">>, 60)
R15_then(f) == add_reco(f, <<"R15">>, 40)
R16_then(f) == add_reco(f, <<"R16", Get(f, "my_pokemon", "Pokemon"),
                             Get(f, "enemy_pokemon", "el rival")>>, 65)
R17_then(f) == add_reco(f, <<"R17", Capitalize(f["my_pokemon"]),
                             Capitalize(f["enemy_pokemon"])>>, 55)

R1  == "R1_ATTACK_WITH_TYPE_ADVANTAGE"
R2  == "R2_SWITCH_IF_LOW_HP_AND_ENEMY_ADVANTAGE"
R3  == "R3_FINISH_ENEMY_IF_LOW_HP"
R4  == "R4_NEUTRAL_PLAY_IF_NO_CLEAR_ADVANTAGE"
R5  == "R5_RISKY_PLAY_IF_BOTH_LOW"
D1  == "D1_COMPUTE_BEST_MOVE"
R6  == "R6_USE_SUPER_EFFECTIVE"
R7  == "R7_USE_NEUTRAL_BEST"
R8  == "R8_SWITCH_IF_ALL_RESISTED"
R9  == "R9_DEFEND_IF_VERY_LOW_HP_NO_KO"
R10 == "R10_FINISH_WITH_PRIORITY"
R11 == "R11_SWITCH_IF_SLOW_AND_WEAK"
R12 == "R12_ATTACK_IF_FASTER_AND_OK_HP"
R13 == "R13_STRONG_PRESSURE_IF_FASTER_SUPER_EFFECTIVE"
R14 == "R14_NO_GOOD_MOVES_WARNING"
R15 == "R15_NO_MOVES_INFO"
R16 == "R16_SAME_MAIN_TYPE_BATTLE"
R17 == "R17_EXPLAIN_TYPE_ADVANTAGE_WITH_NAMES"

\* the shipped list with D1 declared after the rules that read best_move
ShippedKB_D1Last ==
    <<R1, R2, R3, R4, R5, R6, R7, R8, R9, R10, R11, R12, R13, R14, R15, R16, R17, D1>>

\* the list rules() returns, in declared order
\* the shipped list with D1 declared behind the last rule that reads best_move
ShippedKB_D1AfterR13 ==
    <<R1, R2, R3, R4, R5, R6, R7, R8, R9, R10, R11, R12, R13, D1, R14, R15, R16, R17>>

\* the shipped list with D1 declared right after R9
ShippedKB_D1AfterR9 ==
    <<R1, R2, R3, R4, R5, R6, R7, R8, R9, D1, R10, R11, R12, R13, R14, R15, R16, R17>>

ShippedKB ==
    <<R1, R2, R3, R4, R5, D1, R6, R7, R8, R9, R10, R11, R12, R13, R14, R15, R16, R17>>

(***************************************************************************)
(* Test rules handed to forward_chain in place of the shipped list: a      *)
(* derivation chain a -> b -> c, and two rules that read an absent key.    *)
(***************************************************************************)
TA == "T_A"             \* when: True                 then: f["a"] = True
TB == "T_B"             \* when: "a" in f             then: f["b"] = True
TC == "T_C"             \* when: "b" in f             then: f["c"] = True
TW == "T_BAD_WHEN"      \* when: f["a"]               then: f["w"] = True
TT == "T_BAD_THEN"      \* when: "a" in f             then: f["t"] = f["b"]

TestRules == {TA, TB, TC, TW, TT}

TA_when(f) == "True"
TB_when(f) == Cond(Has(f, "a"))
TC_when(f) == Cond(Has(f, "b"))
TW_when(f) == IF ~Has(f, "a") THEN KeyError ELSE Cond(f["a"] = TRUE)
TT_when(f) == Cond(Has(f, "a"))

TA_then(f) == SetItem(f, "a", TRUE)
TB_then(f) == SetItem(f, "b", TRUE)
TC_then(f) == SetItem(f, "c", TRUE)
TW_then(f) == SetItem(f, "w", TRUE)
TT_then(f) == SetItem(f, "t", f["b"])

(***************************************************************************)
(* Rule.when, Rule.then, Rule.explain by rule name                         *)
(***************************************************************************)
When(r, f) ==
    CASE r = R1  -> R1_when(f)  [] r = R2  -> R2_when(f)  [] r = R3  -> R3_when(f)
      [] r = R4  -> R4_when(f)  [] r = R5  -> R5_when(f)  [] r = D1  -> D1_when(f)
      [] r = R6  -> R6_when(f)  [] r = R7  -> R7_when(f)  [] r = R8  -> R8_when(f)
      [] r = R9  -> R9_when(f)  [] r = R10 -> R10_when(f) [] r = R11 -> R11_when(f)
      [] r = R12 -> R12_when(f) [] r = R13 -> R13_when(f) [] r = R14 -> R14_when(f)
      [] r = R15 -> R15_when(f) [] r = R16 -> R16_when(f) [] r = R17 -> R17_when(f)
      [] r = TA  -> TA_when(f)  [] r = TB  -> TB_when(f)  [] r = TC  -> TC_when(f)
      [] r = TW  -> TW_when(f)  [] r = TT  -> TT_when(f)

\* the action raises (only T_BAD_THEN can: the shipped actions read what their
\* conditions have established)
ThenRaises(r, f) == r = TT /\ ~Has(f, "b")

Then(r, f) ==
    CASE r = R1  -> R1_then(f)  [] r = R2  -> R2_then(f)  [] r = R3  -> R3_then(f)
      [] r = R4  -> R4_then(f)  [] r = R5  -> R5_then(f)  [] r = D1  -> D1_then(f)
      [] r = R6  -> R6_then(f)  [] r = R7  -> R7_then(f)  [] r = R8  -> R8_then(f)
      [] r = R9  -> R9_then(f)  [] r = R10 -> R10_then(f) [] r = R11 -> R11_then(f)
      [] r = R12 -> R12_then(f) [] r = R13 -> R13_then(f) [] r = R14 -> R14_then(f)
      [] r = R15 -> R15_then(f) [] r = R16 -> R16_then(f) [] r = R17 -> R17_then(f)
      [] r = TA  -> TA_then(f)  [] r = TB  -> TB_then(f)  [] r = TC  -> TC_then(f)
      [] r = TW  -> TW_then(f)  [] r = TT  -> TT_then(f)

\* f"[{r.name}] {r.explain}": explain is a fixed text of the rule, so the line
\* is the bracketed name (followed by that text)
TraceLine(r) == "[" \o r \o "]"

AllRules == {ShippedKB[i] : i \in 1..Len(ShippedKB)} \cup TestRules

(***************************************************************************)
(* The fact stores handed to forward_chain.  main() builds the thirteen    *)
(* input keys (main.py 135-149, app_streamlit.py 160-174); the stores      *)
(* drawn here cover both sides of every threshold the rules test.          *)
(***************************************************************************)
\* <<my_hp_pct, enemy_hp_pct>>
HpPairs == { <<20, 20>>, <<20, 70>>, <<50, 20>>, <<50, 50>>, <<80, 20>>, <<80, 60>> }

\* is_faster / is_slower as main() derives them from one answer
SpeedFlags == {<<TRUE, FALSE>>, <<FALSE, TRUE>>, <<FALSE, FALSE>>}

\* move records as ask_moves / build_moves construct them (name, eff, score;
\* the keys no rule reads are left out); growl carries no score key
tackle == [name |-> "tackle", eff |-> 100, score |-> 10]
ember  == [name |-> "ember",  eff |-> 50,  score |-> 15]
peck   == [name |-> "peck",   eff |-> 200, score |-> 20]
bite   == [name |-> "bite",   eff |-> 50,  score |-> 30]
surf   == [name |-> "surf",   eff |-> 200, score |-> 80]
slam   == [name |-> "slam",   eff |-> 100, score |-> 80]
growl  == [name |-> "growl",  eff |-> 100]

MoveLists ==
    { <<>>,
      <<tackle>>, <<ember>>, <<peck>>, <<bite>>, <<surf>>, <<growl>>,
      <<surf, slam>>, <<slam, surf>>,
      <<tackle, ember, peck, surf>>, <<surf, peck, ember, tackle>>,
      <<tackle, ember, peck, slam>>,
      <<tackle, ember, peck, tackle>>, <<peck, ember, tackle, ember>>,
      <<ember, ember, tackle, growl>> }

Facts(myhp, enhp, myadv, enadv, moves, prio, defn, speed) ==
    [ my_pokemon         |-> "charizard",
      enemy_pokemon      |-> "arcanine",
      my_types           |-> <<"fire", "flying">>,
      enemy_types        |-> <<"fire">>,
      my_hp_pct          |-> myhp,
      enemy_hp_pct       |-> enhp,
      my_advantage       |-> myadv,
      enemy_advantage    |-> enadv,
      my_moves           |-> moves,
      has_priority_move  |-> prio,
      has_defensive_move |-> defn,
      is_faster          |-> speed[1],
      is_slower          |-> speed[2] ]

InputKeys == DOMAIN Facts(0, 0, FALSE, FALSE, <<>>, FALSE, FALSE, <<FALSE, FALSE>>)

MainInputs ==
    { Facts(h[1], h[2], c, d, m, p, q, s) :
        h \in HpPairs, c \in BOOLEAN, d \in BOOLEAN,
        m \in MoveLists, p \in BOOLEAN, q \in BOOLEAN, s \in SpeedFlags }

\* del f[k]
DelItem(f, k) == [x \in DOMAIN f \ {k} |-> f[x]]

\* stores a caller other than main() may hand over: keys missing, derived
\* keys already present, other species
OtherStores(f) ==
    { DelItem(f, "my_hp_pct"),
      DelItem(f, "enemy_hp_pct"),
      DelItem(DelItem(f, "my_advantage"), "enemy_advantage"),
      DelItem(DelItem(f, "my_pokemon"), "my_types"),
      SetItem(f, "my_pokemon", ""),
      SetItem(SetItem(f, "enemy_pokemon", "blastoise"), "enemy_types", <<"water">>),
      SetItem(f, "enemy_types", <<>>),
      SetItem(f, "best_move", None),
      SetItem(f, "best_move", slam),
      SetItem(f, "is_slower", TRUE),
      DelItem(f, "my_moves"),
      SetItem(f, "recommendations",
              << [text |-> <<"earlier-a">>, priority |-> 80],
                 [text |-> <<"earlier-b">>, priority |-> 93],
                 [text |-> <<"earlier-c">>, priority |-> 80] >>) }

OtherInputs ==
    UNION { OtherStores(Facts(a, b, c, d, m, TRUE, TRUE, <<TRUE, FALSE>>)) :
              a \in {20, 80}, b \in {20, 60}, c \in BOOLEAN, d \in BOOLEAN,
              m \in {<<>>, <<ember>>, <<surf>>} }

\* stores with the HP values on and just beyond the rules' thresholds
BoundaryInputs ==
    { Facts(a, b, c, d, m, TRUE, TRUE, s) :
        a \in {25, 26, 35, 36}, b \in {25, 39, 40}, c \in BOOLEAN, d \in BOOLEAN,
        m \in {<<>>, <<ember>>, <<surf>>}, s \in SpeedFlags }

CappedInputs ==
    { Facts(a, b, c, d, m, TRUE, TRUE, <<TRUE, FALSE>>) :
        a \in {20, 80}, b \in {20, 60}, c \in BOOLEAN, d \in BOOLEAN,
        m \in {<<>>, <<ember>>, <<surf>>} }

\* the test rule lists: every list of at most MaxRules distinct test rules
TestRuleLists ==
    UNION { { s \in [1..n -> TestRules] : \A i, j \in 1..n : s[i] = s[j] => i = j } :
            n \in 0..MaxRules }

EmptyStore == [k \in {} |-> TRUE]
TestInputs == { EmptyStore, SetItem(EmptyStore, "a", TRUE) }

NoResult == [fired |-> {}, trace |-> <<>>, facts |-> EmptyStore]

\* no call of has_type_advantage is being looked at
NoTypeQuery == [attacking |-> <<>>, defending |-> <<>>, chart |-> EmptyStore,
                returned |-> {}, main |-> FALSE, app |-> FALSE]

(***************************************************************************)
(* inference.py: forward_chain, one action per step of its control flow    *)
(***************************************************************************)
Caller(rs, ml, f) ==
    /\ rules = rs
    /\ max_loops = ml
    /\ input = f
    /\ facts = f
    /\ fired = {}
    /\ trace = <<>>
    /\ loop = 0
    /\ idx = 0
    /\ fired_any = FALSE
    /\ pc = "call"
    /\ fired_rules = <<>>
    /\ invoked = [r \in AllRules |-> 0]
    /\ firedAt = [r \in AllRules |-> 0]
    /\ call = 1
    /\ prev = NoResult
    /\ shown = <<>>
    /\ adv = NoTypeQuery

\* result = forward_chain(facts, rules())
InitMain ==
    \E f \in MainInputs \cup OtherInputs \cup BoundaryInputs :
        Caller(ShippedKB, DefaultMaxLoops, f)

\* forward_chain(facts, rules(), max_loops) with a small cap
InitCapped == \E f \in CappedInputs, ml \in 0..2 : Caller(ShippedKB, ml, f)

\* forward_chain(facts, test_rules, max_loops)
InitTest ==
    \E rs \in TestRuleLists, f \in TestInputs,
       ml \in (0..MaxLoopsBound) \cup {DefaultMaxLoops} : Caller(rs, ml, f)

Init == InitMain \/ InitCapped \/ InitTest

\* Enter with a fired set that outlives the call (a module-level or default-
\* argument set)
Enter_KeepingFired ==
    /\ pc = "call"
    /\ fired' = fired
    /\ trace' = <<>>
    /\ pc' = "for"
    /\ UNCHANGED <<rules, max_loops, facts, input, loop, idx, fired_any,
                   fired_rules, invoked, firedAt, call, prev, shown, adv>>

\* lines 30-31: fired = set(); trace = []
Enter ==
    /\ pc = "call"
    /\ fired' = {}
    /\ trace' = <<>>
    /\ pc' = "for"
    /\ UNCHANGED <<rules, max_loops, facts, input, loop, idx, fired_any,
                   fired_rules, invoked, firedAt, call, prev, shown, adv>>

\* one sweep too many
MoreLoops_OffByOne(n, cap) == n <= cap

\* line 33: range(max_loops) yields max_loops values
MoreLoops(n, cap) == n < cap

\* lines 33-34: the next iteration of `for _ in range(max_loops)`
BeginSweep ==
    /\ pc = "for"
    /\ MoreLoops(loop, max_loops)
    /\ loop' = loop + 1
    /\ fired_any' = FALSE
    /\ idx' = 1
    /\ pc' = "rule"
    /\ UNCHANGED <<rules, max_loops, facts, input, fired, trace,
                   fired_rules, invoked, firedAt, call, prev, shown, adv>>

\* an engine that reports the exhausted cap as an error
CapReached_Raising ==
    /\ pc = "for"
    /\ ~MoreLoops(loop, max_loops)
    /\ pc' = "raised"
    /\ UNCHANGED <<rules, max_loops, facts, input, fired, trace, loop, idx,
                   fired_any, fired_rules, invoked, firedAt, call, prev, shown, adv>>

\* line 33: range(max_loops) is exhausted
CapReached ==
    /\ pc = "for"
    /\ ~MoreLoops(loop, max_loops)
    /\ pc' = "return"
    /\ UNCHANGED <<rules, max_loops, facts, input, fired, trace, loop, idx,
                   fired_any, fired_rules, invoked, firedAt, call, prev, shown, adv>>

\* the engine without its fired-set test
AlreadyFired_Never(r, fs) == FALSE

\* line 37: if r.name in fired
AlreadyFired(r, fs) == r \in fs

\* trace.insert(0, line)
trace_append_AtFront(t, line) == <<line>> \o t

\* line 43: trace.append(line)
trace_append(t, line) == Append(t, line)

\* lines 37-38: continue
SkipFired ==
    /\ pc = "rule"
    /\ idx <= Len(rules)
    /\ AlreadyFired(rules[idx], fired)
    /\ idx' = idx + 1
    /\ UNCHANGED <<rules, max_loops, facts, input, fired, trace, loop,
                   fired_any, pc, fired_rules, invoked, firedAt, call, prev, shown, adv>>

\* line 39: r.when(facts) is false
NotEligible ==
    /\ pc = "rule"
    /\ idx <= Len(rules)
    /\ ~AlreadyFired(rules[idx], fired)
    /\ When(rules[idx], facts) = "False"
    /\ idx' = idx + 1
    /\ UNCHANGED <<rules, max_loops, facts, input, fired, trace, loop,
                   fired_any, pc, fired_rules, invoked, firedAt, call, prev, shown, adv>>

\* an engine that forgets line 42 (fired_any = True)
Fire_FlagNotSet ==
    /\ pc = "rule"
    /\ idx <= Len(rules)
    /\ LET r == rules[idx] IN
        /\ ~AlreadyFired(r, fired)
        /\ When(r, facts) = "True"
        /\ ~ThenRaises(r, facts)
        /\ facts' = Then(r, facts)
        /\ fired' = fired \cup {r}
        /\ trace' = trace_append(trace, TraceLine(r))
        /\ invoked' = [invoked EXCEPT ![r] = @ + 1]
        /\ firedAt' = [firedAt EXCEPT ![r] = loop]
    /\ idx' = idx + 1
    /\ UNCHANGED <<rules, max_loops, input, loop, pc, fired_rules, call, prev, shown, adv,
                   fired_any>>

\* lines 39-43: r.when(facts) is true: r.then(facts), fired.add, trace.append
Fire ==
    /\ pc = "rule"
    /\ idx <= Len(rules)
    /\ LET r == rules[idx] IN
        /\ ~AlreadyFired(r, fired)
        /\ When(r, facts) = "True"
        /\ ~ThenRaises(r, facts)
        /\ facts' = Then(r, facts)
        /\ fired' = fired \cup {r}
        /\ fired_any' = TRUE
        /\ trace' = trace_append(trace, TraceLine(r))
        /\ invoked' = [invoked EXCEPT ![r] = @ + 1]
        /\ firedAt' = [firedAt EXCEPT ![r] = loop]
    /\ idx' = idx + 1
    /\ UNCHANGED <<rules, max_loops, input, loop, pc, fired_rules, call, prev, shown, adv>>

\* an engine that catches the exception of a rule and goes on with the next
\* rule (try: ... except Exception: continue)
Raise_Swallowed ==
    /\ pc = "rule"
    /\ idx <= Len(rules)
    /\ LET r == rules[idx] IN
        /\ ~AlreadyFired(r, fired)
        /\ \/ When(r, facts) = KeyError
           \/ When(r, facts) = "True" /\ ThenRaises(r, facts)
        /\ invoked' = IF When(r, facts) = "True"
                      THEN [invoked EXCEPT ![r] = @ + 1] ELSE invoked
    /\ idx' = idx + 1
    /\ UNCHANGED <<rules, max_loops, facts, input, fired, trace, loop, pc,
                   fired_any, fired_rules, firedAt, call, prev, shown, adv>>

\* lines 39-40: r.when(facts) or r.then(facts) raises; forward_chain has no
\* try, so the exception leaves the call
Raise ==
    /\ pc = "rule"
    /\ idx <= Len(rules)
    /\ LET r == rules[idx] IN
        /\ ~AlreadyFired(r, fired)
        /\ \/ When(r, facts) = KeyError
           \/ When(r, facts) = "True" /\ ThenRaises(r, facts)
        /\ invoked' = IF When(r, facts) = "True"
                      THEN [invoked EXCEPT ![r] = @ + 1] ELSE invoked
    /\ pc' = "raised"
    /\ UNCHANGED <<rules, max_loops, facts, input, fired, trace, loop, idx,
                   fired_any, fired_rules, firedAt, call, prev, shown, adv>>

\* lines 45-46: the sweep fired nothing: break
FixedPoint ==
    /\ pc = "rule"
    /\ idx > Len(rules)
    /\ ~fired_any
    /\ pc' = "return"
    /\ UNCHANGED <<rules, max_loops, facts, input, fired, trace, loop, idx,
                   fired_any, fired_rules, invoked, firedAt, call, prev, shown, adv>>

\* line 45: the sweep fired something: back to the for statement
SweepDone ==
    /\ pc = "rule"
    /\ idx > Len(rules)
    /\ fired_any
    /\ pc' = "for"
    /\ UNCHANGED <<rules, max_loops, facts, input, fired, trace, loop, idx,
                   fired_any, fired_rules, invoked, firedAt, call, prev, shown, adv>>

\* list(fired): a set of str iterates in hash-table order, and str hashes are
\* salted per process, so the order is any order of the names.  Every order is
\* drawn for up to MaxPermLen names; for more, the rotations of the declared
\* order and its reverse.
Reverse(s) == [i \in 1..Len(s) |-> s[Len(s) + 1 - i]]
Rotate(s, k) == [i \in 1..Len(s) |-> s[((i + k - 1) % Len(s)) + 1]]

ListOfSet(S, declared) ==
    LET n == Cardinality(S)
        base == SelectSeq(declared, LAMBDA r : r \in S)
    IN  IF n <= MaxPermLen
        THEN { s \in [1..n -> S] : \A i, j \in 1..n : s[i] = s[j] => i = j }
        ELSE { Rotate(base, k) : k \in 0..(n - 1) } \cup { Reverse(base) }

\* lines 48-52: return InferenceResult(facts, list(fired), trace)
Return ==
    /\ pc = "return"
    /\ fired_rules' \in ListOfSet(fired, rules)
    /\ pc' = "done"
    /\ UNCHANGED <<rules, max_loops, facts, input, fired, trace, loop, idx,
                   fired_any, invoked, firedAt, call, prev, shown, adv>>

\* a sort that puts an element in front of the placed elements of equal key
RECURSIVE SortedFrom_TiesInFront(_, _, _)
SortedFrom_TiesInFront(xs, i, out) ==
    IF i > Len(xs) THEN out
    ELSE LET x == xs[i]
             n == Cardinality({j \in 1..Len(out) : -out[j].priority < -x.priority})
         IN  SortedFrom_TiesInFront(xs, i + 1,
                        SubSeq(out, 1, n) \o <<x>> \o SubSeq(out, n + 1, Len(out)))

\* sorted() is stable: an element goes behind every element already placed whose
\* key is not larger than its own; the key is -priority
RECURSIVE SortedFrom(_, _, _)
SortedFrom(xs, i, out) ==
    IF i > Len(xs) THEN out
    ELSE LET x == xs[i]
             n == Cardinality({j \in 1..Len(out) : -out[j].priority <= -x.priority})
         IN  SortedFrom(xs, i + 1,
                        SubSeq(out, 1, n) \o <<x>> \o SubSeq(out, n + 1, Len(out)))

\* sorted(recos, key=lambda r: -r["priority"])
SortedByPriority(xs) == SortedFrom(xs, 1, <<>>)

\* main.py 155-156, app_streamlit.py 187-188:
\* recos = sorted(result.facts.get("recommendations", []), key=...)
Display ==
    /\ pc = "done"
    /\ shown' = SortedByPriority(Get(facts, "recommendations", <<>>))
    /\ pc' = "shown"
    /\ UNCHANGED <<rules, max_loops, facts, input, fired, trace, loop, idx,
                   fired_any, fired_rules, invoked, firedAt, call, prev, adv>>

Next ==
    \/ Enter
    \/ BeginSweep
    \/ CapReached
    \/ SkipFired
    \/ NotEligible
    \/ Fire
    \/ Raise
    \/ FixedPoint
    \/ SweepDone
    \/ Return
    \/ Display

Spec == Init /\ [][Next]_vars

(***************************************************************************)
(* A second, independent run on an equal store: app_streamlit.main() runs  *)
(* again on every press of the button, builds the facts dict anew from the *)
(* same widget values and calls forward_chain(facts, rules()).             *)
(***************************************************************************)
Result == [fired |-> fired, trace |-> trace, facts |-> facts]

RunAgain ==
    /\ pc = "done"
    /\ call = 1
    /\ prev' = Result
    /\ call' = 2
    /\ facts' = input
    /\ pc' = "call"
    /\ loop' = 0
    /\ idx' = 0
    /\ fired_any' = FALSE
    /\ fired_rules' = <<>>
    /\ invoked' = [r \in AllRules |-> 0]
    /\ firedAt' = [r \in AllRules |-> 0]
    /\ UNCHANGED <<rules, max_loops, input, fired, trace, shown, adv>>

InitTwice ==
    \/ \E f \in CappedInputs \cup OtherInputs, ml \in {1, DefaultMaxLoops} :
          Caller(ShippedKB, ml, f)
    \/ InitTest

NextTwice == Next \/ RunAgain

SpecTwice == InitTwice /\ [][NextTwice]_vars

(***************************************************************************)
(* A second call on the same store.  forward_chain works on the dict it is *)
(* handed (line 40 passes it to the actions, line 49 returns it), so a     *)
(* caller that calls forward_chain(result.facts, rules(), max_loops) again *)
(* hands over the store as the first call left it; fired and trace are     *)
(* locals and start anew (lines 30-31).                                    *)
(***************************************************************************)
CallAgain ==
    /\ pc = "done"
    /\ call = 1
    /\ prev' = Result
    /\ call' = 2
    /\ pc' = "call"
    /\ loop' = 0
    /\ idx' = 0
    /\ fired_any' = FALSE
    /\ fired_rules' = <<>>
    /\ invoked' = [r \in AllRules |-> 0]
    /\ firedAt' = [r \in AllRules |-> 0]
    /\ UNCHANGED <<rules, max_loops, facts, input, fired, trace, shown, adv>>

InitAgain ==
    \E f \in CappedInputs \cup OtherInputs, ml \in {0, 1, DefaultMaxLoops} :
        Caller(ShippedKB, ml, f)

NextAgain == Next \/ CallAgain

SpecAgain == InitAgain /\ [][NextAgain]_vars

(***************************************************************************)
(* The type advantage.  data_loader.effectiveness and the two copies of    *)
(* has_type_advantage (main.py, app_streamlit.py) are pure functions of    *)
(* two lists of type names and the chart.  A multiplier is a float that is *)
(* a product of the chart's factors 0, 0.5, 1, 2; it is kept as an exact   *)
(* fraction num/den, so that products and comparisons are those of the     *)
(* floats (all of them are exact in binary floating point).                *)
(***************************************************************************)
MaxTypes == 2

One == [num |-> 1, den |-> 1]

\* load_type_chart: multiplier = factor / 100.0
Multiplier(factor) == [num |-> factor, den |-> 100]

\* total *= mul
Times(a, b) == [num |-> a.num * b.num, den |-> a.den * b.den]

\* eff >= best instead of eff > best
Greater_OrEqual(a, b) == a.num * b.den >= b.num * a.den

\* eff > best, best > 1.0
Greater(a, b) == a.num * b.den > b.num * a.den

\* str.lower() on the names that are typed in
Lower(t) ==
    CASE t = "Water" -> "water"
      [] OTHER       -> t

\* chart.get(attacking, {}).get(dt, 1.0)
ChartGet(chart, attacking, dt) ==
    IF attacking \in DOMAIN chart
    THEN IF dt \in DOMAIN chart[attacking] THEN chart[attacking][dt] ELSE One
    ELSE One

\* data_loader.py 55-68: the loop over defending_types from position i on
RECURSIVE EffFrom(_, _, _, _, _)
EffFrom(attacking, defending_types, chart, i, total) ==
    IF i > Len(defending_types) THEN total
    ELSE EffFrom(attacking, defending_types, chart, i + 1,
                 Times(total, ChartGet(chart, attacking, Lower(defending_types[i]))))

effectiveness(attacking, defending_types, chart) ==
    EffFrom(Lower(attacking), defending_types, chart, 1, One)

\* main.py 41-45: the loop over attacking_types from position i on
RECURSIVE BestFrom(_, _, _, _, _)
BestFrom(attacking_types, defending_types, chart, i, best) ==
    IF i > Len(attacking_types) THEN best
    ELSE LET eff == effectiveness(attacking_types[i], defending_types, chart)
         IN  BestFrom(attacking_types, defending_types, chart, i + 1,
                      IF Greater(eff, best) THEN eff ELSE best)

\* main.py 37-46
main_has_type_advantage(attacking_types, defending_types, chart) ==
    Greater(BestFrom(attacking_types, defending_types, chart, 1, One), One)

\* a guard that answers True for an empty list
app_has_type_advantage_EmptyIsAdvantage(attacking_types, defending_types, chart) ==
    IF attacking_types = <<>> \/ defending_types = <<>> THEN TRUE
    ELSE Greater(BestFrom(attacking_types, defending_types, chart, 1, One), One)

\* app_streamlit.py 51-63
app_has_type_advantage(attacking_types, defending_types, chart) ==
    IF attacking_types = <<>> \/ defending_types = <<>> THEN FALSE
    ELSE Greater(BestFrom(attacking_types, defending_types, chart, 1, One), One)

\* type names as they are typed in: lower-case ones and one with a capital
TypeNames == {"fire", "water", "ghost", "normal", "Water"}

TypeLists ==
    UNION { [1..n -> TypeNames] : n \in 0..MaxTypes }

Row(pairs) == [d \in {q[1] : q \in pairs} |->
                  Multiplier((CHOOSE q \in pairs : q[1] = d)[2])]

\* a chart with every pair of four types, as load_type_chart builds it from
\* type_efficacy.csv
FullChart ==
    [a \in {"fire", "water", "ghost", "normal"} |->
        CASE a = "fire"   -> Row({<<"fire", 50>>,  <<"water", 50>>,  <<"ghost", 100>>, <<"normal", 100>>})
          [] a = "water"  -> Row({<<"fire", 200>>, <<"water", 50>>,  <<"ghost", 100>>, <<"normal", 100>>})
          [] a = "ghost"  -> Row({<<"fire", 100>>, <<"water", 100>>, <<"ghost", 200>>, <<"normal", 0>>})
          [] a = "normal" -> Row({<<"fire", 100>>, <<"water", 100>>, <<"ghost", 0>>,   <<"normal", 100>>})]

\* a chart from a file that lists only the pairs that are not x1 (no row for
\* normal, no entry for most pairs)
SparseChart ==
    [a \in {"fire", "water", "ghost"} |->
        CASE a = "fire"   -> Row({<<"fire", 50>>,  <<"water", 50>>})
          [] a = "water"  -> Row({<<"fire", 200>>, <<"water", 50>>})
          [] a = "ghost"  -> Row({<<"ghost", 200>>, <<"normal", 0>>})]

Charts == {FullChart, SparseChart, EmptyStore}

\* has_type_advantage(attacking_types, defending_types, chart) is about to be
\* called, in main.py and in app_streamlit.py
InitTypes ==
    /\ \E a \in TypeLists, d \in TypeLists, c \in Charts :
          adv = [attacking |-> a, defending |-> d, chart |-> c,
                 returned |-> {}, main |-> FALSE, app |-> FALSE]
    /\ pc = "types"
    /\ rules = <<>>
    /\ max_loops = DefaultMaxLoops
    /\ input = EmptyStore
    /\ facts = EmptyStore
    /\ fired = {}
    /\ trace = <<>>
    /\ loop = 0
    /\ idx = 0
    /\ fired_any = FALSE
    /\ fired_rules = <<>>
    /\ invoked = [r \in AllRules |-> 0]
    /\ firedAt = [r \in AllRules |-> 0]
    /\ call = 1
    /\ prev = NoResult
    /\ shown = <<>>

\* main.py 131: has_type_advantage(my_types, enemy_types, chart)
MainAdvantage ==
    /\ pc = "types"
    /\ "main" \notin adv.returned
    /\ adv' = [adv EXCEPT !.returned = @ \cup {"main"},
                          !.main = main_has_type_advantage(adv.attacking, adv.defending,
                                                           adv.chart)]
    /\ UNCHANGED <<rules, max_loops, facts, input, fired, trace, loop, idx, fired_any,
                   pc, fired_rules, invoked, firedAt, call, prev, shown>>

\* app_streamlit.py 166: has_type_advantage(my_types, enemy_types, chart)
AppAdvantage ==
    /\ pc = "types"
    /\ "app" \notin adv.returned
    /\ adv' = [adv EXCEPT !.returned = @ \cup {"app"},
                          !.app = app_has_type_advantage(adv.attacking, adv.defending,
                                                         adv.chart)]
    /\ UNCHANGED <<rules, max_loops, facts, input, fired, trace, loop, idx, fired_any,
                   pc, fired_rules, invoked, firedAt, call, prev, shown>>

NextTypes == MainAdvantage \/ AppAdvantage

SpecTypes == InitTypes /\ [][NextTypes]_vars

(***************************************************************************)
(* Vocabulary of the properties                                            *)
(***************************************************************************)
\* position of rule r in the running rule list (0 when it is not in it)
Pos(r) == IF \E i \in 1..Len(rules) : rules[i] = r
          THEN CHOOSE i \in 1..Len(rules) : rules[i] = r
          ELSE 0

\* number of occurrences of x in the sequence s
Count(s, x) == Cardinality({i \in 1..Len(s) : s[i] = x})

\* the rule a trace line belongs to
RuleOfLine(line) == CHOOSE r \in AllRules : TraceLine(r) = line

\* forward_chain has returned its InferenceResult
Returned == pc \in {"done", "shown"}
\* forward_chain is over: it has returned or an exception has left it
Finished == Returned \/ pc = "raised"
Shipped == rules = ShippedKB

\* the store holds none of the derived keys when it is handed over
NoDerivedKeys(f) == ~Has(f, "best_move") /\ ~Has(f, "recommendations")

\* the recommendation list of a store (facts.get("recommendations", []))
Recos(f) == Get(f, "recommendations", <<>>)

\* rule r has fired and a recommendation with priority p is in the store
FiredWithPriority(r, tag, p) ==
    /\ r \in fired
    /\ \E i \in 1..Len(Recos(facts)) :
          Recos(facts)[i].priority = p /\ Recos(facts)[i].text[1] = tag

(***************************************************************************)
(* C1  At-most-once firing: in every run, for every rule, the action is    *)
(* invoked at most once, the rule's line occurs at most once in the trace  *)
(* and its name at most once in fired_rules -- however many sweeps are     *)
(* made and also when its condition is still true after it fired.          *)
(***************************************************************************)
C1_AtMostOnce ==
    \A r \in AllRules :
        /\ invoked[r] <= 1
        /\ Count(trace, TraceLine(r)) <= 1
        /\ Count(fired_rules, r) <= 1

\* a returned run of two or more sweeps in which a fired rule's condition
\* still holds in the final store
C1_Witness ==
    /\ Returned
    /\ loop >= 2
    /\ \E r \in fired :
          /\ When(r, facts) = "True"
          /\ invoked[r] = 1
          /\ Count(fired_rules, r) = 1

(***************************************************************************)
(* C2  Termination bound: the number of sweeps never exceeds max_loops     *)
(* (for every cap >= 0, the default 20 included); a sweep that fires       *)
(* nothing is the last one, so every sweep before the current one fired a  *)
(* rule; the call returns only at the cap or after a sweep that fired      *)
(* nothing; and until it has returned or raised the call can always take   *)
(* its next step.                                                          *)
(***************************************************************************)
C2_SweepCap ==
    /\ loop <= max_loops
    /\ \A k \in 1..(loop - 1) : \E r \in AllRules : firedAt[r] = k
    /\ (pc = "for" /\ loop >= 1) => fired_any
    /\ pc \in {"return", "done", "shown"} => (loop = max_loops \/ ~fired_any)
    /\ pc \notin {"done", "shown", "raised"} => ENABLED Next

\* a run stopped by the cap while a rule of the list never became eligible
C2_Witness ==
    /\ Returned
    /\ max_loops >= 1
    /\ loop = max_loops
    /\ fired_any
    /\ \E i \in 1..Len(rules) : rules[i] \notin fired /\ When(rules[i], facts) = "False"

(***************************************************************************)
(* C3  Determinism: a second, independent run on an equal input store with *)
(* the same rule list returns the same set of fired rule names and the     *)
(* same trace (same lines, same order) as the first.                       *)
(***************************************************************************)
C3_Deterministic ==
    (Returned /\ call = 2) => (fired = prev.fired /\ trace = prev.trace)

\* a second run has returned after firing at least two rules
C3_Witness ==
    /\ Returned
    /\ call = 2
    /\ Len(trace) >= 2
    /\ Cardinality(prev.fired) >= 2

(***************************************************************************)
(* C4  Single-sweep visibility: a rule whose condition reads a fact that   *)
(* an earlier-declared rule writes fires in the sweep in which that rule   *)
(* fired.  Shipped list: once D1 has fired with a best move of             *)
(* effectiveness >= 2.0 and the sweep has passed R6, R6 has fired, in the  *)
(* same sweep.  Test lists: the same for T_B after T_A and T_C after T_B.  *)
(***************************************************************************)
\* rule d has been evaluated in or after the sweep in which w fired
PassedSince(w, d) == loop > firedAt[w] \/ idx > Pos(d)

SameSweep(w, d) ==
    (w \in fired /\ PassedSince(w, d)) => (d \in fired /\ firedAt[d] = firedAt[w])

C4_SameSweep ==
    /\ (Shipped /\ D1 \in fired /\ facts["best_move"].eff >= 200) => SameSweep(D1, R6)
    /\ (0 < Pos(TA) /\ Pos(TA) < Pos(TB) /\ ~Has(input, "a")) => SameSweep(TA, TB)
    /\ (0 < Pos(TB) /\ Pos(TB) < Pos(TC)) => SameSweep(TB, TC)

\* D1 and R6 have both fired in one sweep of a returned run
C4_Witness ==
    /\ Returned
    /\ Shipped
    /\ D1 \in fired
    /\ R6 \in fired
    /\ firedAt[D1] = firedAt[R6]
    /\ facts["best_move"].eff >= 200

(***************************************************************************)
(* C5  The returned fired_rules lists the rule names in firing order: its  *)
(* i-th name is the rule of the i-th trace line.                           *)
(***************************************************************************)
C5_FiredRulesInFiringOrder ==
    Returned =>
        /\ Len(fired_rules) = Len(trace)
        /\ \A i \in 1..Len(trace) : TraceLine(fired_rules[i]) = trace[i]

(***************************************************************************)
(* C6  The trace is in firing order: one line per fired rule and no other; *)
(* of two lines, the earlier one belongs to a rule fired in an earlier     *)
(* sweep, or in the same sweep and declared earlier in the rule list.      *)
(***************************************************************************)
C6_TraceInFiringOrder ==
    /\ Len(trace) = Cardinality(fired)
    /\ {RuleOfLine(trace[i]) : i \in 1..Len(trace)} = fired
    /\ \A i, j \in 1..Len(trace) :
          i < j =>
            LET a == RuleOfLine(trace[i])
                b == RuleOfLine(trace[j])
            IN  \/ firedAt[a] < firedAt[b]
                \/ firedAt[a] = firedAt[b] /\ Pos(a) < Pos(b)

\* a returned run whose trace holds a rule from one sweep followed by two
\* rules of a later sweep, the rule of the earlier sweep declared after them
C6_Witness ==
    /\ Returned
    /\ \E i \in 1..Len(trace) :
          /\ i + 2 <= Len(trace)
          /\ firedAt[RuleOfLine(trace[i])] < firedAt[RuleOfLine(trace[i + 1])]
          /\ firedAt[RuleOfLine(trace[i + 1])] = firedAt[RuleOfLine(trace[i + 2])]
          /\ Pos(RuleOfLine(trace[i])) > Pos(RuleOfLine(trace[i + 2]))

(***************************************************************************)
(* C7  With the shipped list no rule action changes an input fact: at      *)
(* every point of a run each of the thirteen input keys is present exactly *)
(* if the caller's store had it, with the value it had; the only keys a    *)
(* step adds or changes are recommendations and best_move, and best_move   *)
(* is written only by the firing of D1.                                    *)
(***************************************************************************)
InputsAsHandedOver ==
    /\ \A k \in InputKeys :
          /\ Has(facts, k) <=> Has(input, k)
          /\ Has(facts, k) => facts[k] = input[k]
    /\ DOMAIN facts \subseteq DOMAIN input \cup {"best_move", "recommendations"}

OnlyDerivedWritten ==
    /\ DOMAIN facts \subseteq DOMAIN facts'
    /\ \A k \in DOMAIN facts' :
          \/ k = "recommendations"
          \/ /\ k = "best_move"
             /\ pc = "rule" /\ idx \in 1..Len(rules) /\ rules[idx] = D1
             /\ D1 \in fired' \ fired
          \/ k \in DOMAIN facts /\ facts'[k] = facts[k]

C7_InputsUntouched ==
    /\ [](Shipped => InputsAsHandedOver)
    /\ [][Shipped => OnlyDerivedWritten]_vars

\* a returned run in which D1 wrote best_move and a later rule appended a
\* recommendation
C7_Witness ==
    /\ Returned
    /\ Shipped
    /\ D1 \in fired
    /\ Has(facts, "best_move") /\ ~Has(input, "best_move")
    /\ Len(Recos(facts)) >= 2
    /\ Len(facts["my_moves"]) = 4

(***************************************************************************)
(* C8  Scenario 1: a store with own HP 80, enemy HP 60, my_advantage true, *)
(* an empty move list and no best_move, run with the shipped list and a    *)
(* cap of at least one sweep: the call does not raise, and when it has     *)
(* returned R1 has fired and left a priority-80 recommendation, R15 has    *)
(* fired and left a priority-40 recommendation, D1 has not fired and the   *)
(* store has no best_move.                                                 *)
(***************************************************************************)
Scenario1(f) ==
    /\ Has(f, "my_hp_pct") /\ f["my_hp_pct"] = 80
    /\ Has(f, "enemy_hp_pct") /\ f["enemy_hp_pct"] = 60
    /\ Truthy(f, "my_advantage")
    /\ Get(f, "my_moves", <<>>) = <<>>
    /\ ~Has(f, "best_move")

C8_Scenario1 ==
    (Shipped /\ max_loops >= 1 /\ Scenario1(input)) =>
        /\ pc # "raised"
        /\ Returned =>
            /\ FiredWithPriority(R1, "R1", 80)
            /\ FiredWithPriority(R15, "R15", 40)
            /\ D1 \notin fired
            /\ ~Has(facts, "best_move")

C8_Witness ==
    /\ Returned
    /\ Shipped
    /\ max_loops = DefaultMaxLoops
    /\ Scenario1(input)
    /\ {R1, R15} \subseteq fired

(***************************************************************************)
(* C9  Scenario 3: four candidate moves with the scores 10, 15, 20 and 80, *)
(* the score-80 move of effectiveness exactly 2.0, no best_move in the     *)
(* store, shipped list, cap of at least one sweep: when the call has       *)
(* returned D1 has recorded the score-80 move as best_move, R6 has fired   *)
(* and left a priority-92 recommendation, and R14 has not fired.           *)
(***************************************************************************)
Scenario3(f) ==
    /\ Has(f, "my_moves")
    /\ Len(f["my_moves"]) = 4
    /\ {Score(f["my_moves"][i]) : i \in 1..4} = {10, 15, 20, 80}
    /\ \A i \in 1..4 : Score(f["my_moves"][i]) = 80 => f["my_moves"][i].eff = 200
    /\ ~Has(f, "best_move")

C9_Scenario3 ==
    (Returned /\ Shipped /\ max_loops >= 1 /\ Scenario3(input)) =>
        /\ D1 \in fired
        /\ Has(facts, "best_move")
        /\ Score(facts["best_move"]) = 80
        /\ \E i \in 1..4 : input["my_moves"][i] = facts["best_move"]
        /\ FiredWithPriority(R6, "R6", 92)
        /\ R14 \notin fired

C9_Witness ==
    /\ Returned
    /\ Shipped
    /\ Scenario3(input)
    /\ input["my_moves"][4] = surf
    /\ facts["best_move"] = surf
    /\ R6 \in fired

(***************************************************************************)
(* C10  Scenario 4: four candidate moves that all score below 30, own HP   *)
(* and enemy HP both 50, shipped list, cap of at least one sweep: the call *)
(* does not raise, and when it has returned R14 has fired, and R4 has      *)
(* fired as well if neither my_advantage nor enemy_advantage holds.        *)
(***************************************************************************)
Scenario4(f) ==
    /\ Has(f, "my_moves")
    /\ Len(f["my_moves"]) = 4
    /\ AllScoresBelow(f["my_moves"], 30)
    /\ Has(f, "my_hp_pct") /\ f["my_hp_pct"] = 50
    /\ Has(f, "enemy_hp_pct") /\ f["enemy_hp_pct"] = 50

C10_Scenario4 ==
    (Shipped /\ max_loops >= 1 /\ Scenario4(input)) =>
        /\ pc # "raised"
        /\ Returned =>
            /\ R14 \in fired
            /\ (~Truthy(input, "my_advantage") /\ ~Truthy(input, "enemy_advantage"))
                  => R4 \in fired

C10_Witness ==
    /\ Returned
    /\ Shipped
    /\ Scenario4(input)
    /\ ~Truthy(input, "my_advantage") /\ ~Truthy(input, "enemy_advantage")
    /\ {R14, R4} \subseteq fired

(***************************************************************************)
(* C11  Scenario 5: in every run of the shipped rules (at least one sweep  *)
(* allowed) that returns, on a store with enemy HP 20 and a true           *)
(* has_priority_move, R10 has fired and its recommendation of priority 93  *)
(* is in the store -- whatever is_faster and is_slower say, and whatever   *)
(* the other inputs are.  A run on such a store cannot raise before R10:   *)
(* only a store lacking my_hp_pct does, and that run never returns.        *)
(***************************************************************************)
Scenario5(f) ==
    /\ Has(f, "enemy_hp_pct") /\ f["enemy_hp_pct"] = 20
    /\ Truthy(f, "has_priority_move")

C11_Scenario5 ==
    (Returned /\ Shipped /\ max_loops >= 1 /\ Scenario5(input)) =>
        FiredWithPriority(R10, "R10", 93)

\* R10 has fired for a slower attacker, and for one that is neither
C11_Witness ==
    /\ Returned /\ Shipped /\ Scenario5(input)
    /\ ~Truthy(input, "is_faster")
    /\ Truthy(input, "is_slower")
    /\ FiredWithPriority(R10, "R10", 93)

(***************************************************************************)
(* C12  Scenario 2: in every run of the shipped rules (at least one sweep  *)
(* allowed) on a store with own HP <= 35 (20 in the scenario, enemy HP 70) *)
(* and a true enemy_advantage, once the run is over R2 has fired and its   *)
(* recommendation of priority 95 is in the store.  R2 is evaluated before  *)
(* any rule that can raise on such a store, so this also holds of the runs *)
(* that end in a KeyError further down the list.                           *)
(***************************************************************************)
Scenario2(f) ==
    /\ Has(f, "my_hp_pct") /\ f["my_hp_pct"] <= 35
    /\ Truthy(f, "enemy_advantage")

C12_Scenario2 ==
    (Finished /\ Shipped /\ max_loops >= 1 /\ Scenario2(input)) =>
        FiredWithPriority(R2, "R2", 95)

\* the scenario's own numbers: own HP 20, enemy HP 70, enemy advantage
C12_Witness ==
    /\ Returned /\ Shipped
    /\ input["my_hp_pct"] = 20 /\ input["enemy_hp_pct"] = 70
    /\ Truthy(input, "enemy_advantage")
    /\ FiredWithPriority(R2, "R2", 95)

(***************************************************************************)
(* C13  Presentation: the displayed list is the store's recommendation     *)
(* list in descending order of priority, the sort is stable (entries of    *)
(* equal priority keep the order they have in the store) and nothing is    *)
(* added or dropped: for every priority the displayed entries of that      *)
(* priority are, in order, the store's entries of that priority.           *)
(***************************************************************************)
WithPriority(xs, p) == SelectSeq(xs, LAMBDA x : x.priority = p)

Priorities(xs) == {xs[i].priority : i \in 1..Len(xs)}

C13_DisplaySorted ==
    pc = "shown" =>
        /\ Len(shown) = Len(Recos(facts))
        /\ \A i \in 1..Len(shown) : \A j \in i..Len(shown) :
              shown[i].priority >= shown[j].priority
        /\ \A p \in Priorities(shown) \cup Priorities(Recos(facts)) :
              WithPriority(shown, p) = WithPriority(Recos(facts), p)

\* a displayed list that is not in store order and holds two entries of one
\* priority, a preset one and one a rule added
C13_Witness ==
    /\ pc = "shown"
    /\ shown # Recos(facts)
    /\ \E i \in 1..Len(shown) : \E j \in (i + 1)..Len(shown) :
          /\ shown[i].priority = shown[j].priority
          /\ shown[i].text = <<"earlier-a">>
          /\ shown[j].text[1] = "R1"

(***************************************************************************)
(* C14  D1 and the best move.  As written -- for every run of the shipped  *)
(* rules on a store with a non-empty candidate list and no best_move key,  *)
(* D1 fires exactly once and the final best_move is the earliest-listed    *)
(* candidate of maximal score -- the statement fails for the runs that end *)
(* before D1 is reached: max_loops = 0, and a run that raises at R1..R5.   *)
(***************************************************************************)
Candidates(f) == Get(f, "my_moves", <<>>)

\* the earliest-listed candidate whose score is the maximum over the list
EarliestMax(moves) ==
    LET top == {i \in 1..Len(moves) :
                   \A j \in 1..Len(moves) : Score(moves[j]) <= Score(moves[i])}
    IN  moves[CHOOSE i \in top : \A j \in top : i <= j]

D1FiredOnceWithEarliestMax ==
    /\ invoked[D1] = 1
    /\ D1 \in fired
    /\ Count(trace, TraceLine(D1)) = 1
    /\ Has(facts, "best_move")
    /\ facts["best_move"] = EarliestMax(Candidates(input))

C15_Tiers ==
    /\ (Returned /\ Shipped /\ D1 \in fired) =>
          LET eff == facts["best_move"].eff
          IN  /\ R6 \in fired <=> eff >= 200
              /\ R7 \in fired <=> (50 < eff /\ eff < 200)
              /\ R8 \in fired <=> (eff <= 50 /\ facts["enemy_hp_pct"] >= 40)
    /\ Shipped => Cardinality({R6, R7, R8} \cap fired) <= 1

\* the boundary of the lowest tier: effectiveness 0.5 and opponent HP 40
C15_Witness ==
    /\ Returned /\ Shipped /\ D1 \in fired
    /\ facts["best_move"].eff = 50
    /\ facts["enemy_hp_pct"] = 40
    /\ R8 \in fired /\ R7 \notin fired /\ R6 \notin fired

(***************************************************************************)
(* C16  R9 and the clear knockout.  As written -- in a run of the shipped  *)
(* rules R9 fires iff own HP <= 25, has_defensive_move is true and either  *)
(* no candidate was supplied or the best candidate's effectiveness is      *)
(* < 2.0, and R9 never fires when a candidate of best-move effectiveness   *)
(* >= 2.0 exists -- the statement fails: a run with max_loops = 0 or one   *)
(* that raises before R9 ends without R9 although the right-hand side      *)
(* holds, and on an input that already holds best_move = None D1 stays     *)
(* silent and R9 fires next to a candidate of effectiveness 2.0.           *)
(***************************************************************************)
NoClearKO(f) ==
    \/ Len(Candidates(f)) = 0
    \/ EarliestMax(Candidates(f)).eff < 200

R9Expected(f) ==
    /\ Has(f, "my_hp_pct") /\ f["my_hp_pct"] <= 25
    /\ Truthy(f, "has_defensive_move")
    /\ NoClearKO(f)

EligibleLeft ==
    \E i \in 1..Len(rules) : rules[i] \notin fired /\ When(rules[i], facts) = "True"

AtCap == pc = "for" /\ loop = max_loops /\ EligibleLeft

Accumulated == <<facts, fired, trace>>

C17_CapIsNoError ==
    /\ [](AtCap => ENABLED Next)
    /\ [][AtCap => (pc' = "return" /\ Accumulated' = Accumulated)]_vars
    /\ [][pc = "return" =>
            /\ pc' = "done"
            /\ Accumulated' = Accumulated
            /\ {fired_rules'[i] : i \in 1..Len(fired_rules')} = fired]_vars
    /\ [](pc = "raised" => (1 <= loop /\ loop <= max_loops /\ idx \in 1..Len(rules)))

\* a returned run of at least one sweep that the cap stopped while a rule that
\* has not fired is eligible: the result holds what the sweeps accumulated
C17_Witness ==
    /\ Returned
    /\ max_loops >= 1 /\ loop = max_loops
    /\ EligibleLeft
    /\ fired # {} /\ Len(trace) = Cardinality(fired)
    /\ Len(fired_rules) = Cardinality(fired)

(***************************************************************************)
(* C18  Faults are not caught: when the condition or the action of the     *)
(* rule being evaluated raises, the call can only leave with the           *)
(* exception; the faulting rule is added neither to the fired set nor to   *)
(* the trace; nothing happens after that (no later rule is evaluated, the  *)
(* return statement is not reached, no result exists and nothing is        *)
(* displayed).                                                             *)
(***************************************************************************)
Faulting ==
    /\ pc = "rule"
    /\ idx \in 1..Len(rules)
    /\ rules[idx] \notin fired
    /\ \/ When(rules[idx], facts) = KeyError
       \/ When(rules[idx], facts) = "True" /\ ThenRaises(rules[idx], facts)

C18_FaultsAbort ==
    /\ [](Faulting => ENABLED Next)
    /\ [][Faulting =>
            /\ pc' = "raised"
            /\ idx' = idx
            /\ <<facts, fired, trace, fired_rules>>' = <<facts, fired, trace, fired_rules>>]_vars
    /\ [](pc = "raised" =>
            /\ rules[idx] \notin fired
            /\ Count(trace, TraceLine(rules[idx])) = 0
            /\ \A j \in (idx + 1)..Len(rules) : firedAt[rules[j]] < loop
            /\ fired_rules = <<>> /\ shown = <<>>
            /\ ~ENABLED Next)

\* a run of the shipped rules on a store without enemy_hp_pct: R1 or R2 has
\* fired, R3 raised, and the rules after R3 have not been touched
C18_Witness ==
    /\ pc = "raised" /\ Shipped
    /\ ~Has(input, "enemy_hp_pct")
    /\ rules[idx] = R3
    /\ fired # {}
    /\ \A j \in (idx + 1)..Len(rules) : invoked[rules[j]] = 0

(***************************************************************************)
(* C19  has_type_advantage, in both of its copies, returns true iff the    *)
(* largest effectiveness of an attacker's type against the defender's      *)
(* types is strictly greater than 1.0, the effectiveness being the product *)
(* over the defender's types of the chart's multiplier for the pair (type  *)
(* names compared in lower case), with 1.0 for a pair the chart does not   *)
(* hold; and it returns false when either list is empty.                   *)
(***************************************************************************)
\* the factor (in hundredths) the chart holds for a pair, 100 when it holds none
FactorOf(chart, a, d) ==
    IF a \in DOMAIN chart /\ d \in DOMAIN chart[a]
    THEN (chart[a][d].num * 100) \div chart[a][d].den
    ELSE 100

\* the product of the factors of type a against the first n defending types
RECURSIVE FactorProduct(_, _, _, _)
FactorProduct(chart, a, ds, n) ==
    IF n = 0 THEN 1
    ELSE FactorOf(chart, Lower(a), Lower(ds[n])) * FactorProduct(chart, a, ds, n - 1)

RECURSIVE Power(_, _)
Power(b, n) == IF n = 0 THEN 1 ELSE b * Power(b, n - 1)

\* some attacker type's product is above 1.0, which is what the largest of
\* the products being above 1.0 means
LargestAboveOne(as, ds, chart) ==
    \E i \in 1..Len(as) :
        /\ \A j \in 1..Len(as) :
              FactorProduct(chart, as[j], ds, Len(ds)) <= FactorProduct(chart, as[i], ds, Len(ds))
        /\ FactorProduct(chart, as[i], ds, Len(ds)) > Power(100, Len(ds))

C19_TypeAdvantage ==
    LET expected == LargestAboveOne(adv.attacking, adv.defending, adv.chart)
        empty    == adv.attacking = <<>> \/ adv.defending = <<>>
    IN  /\ "main" \in adv.returned =>
              /\ adv.main <=> expected
              /\ empty => ~adv.main
        /\ "app" \in adv.returned =>
              /\ adv.app <=> expected
              /\ empty => ~adv.app

\* both copies have answered true for an attacker with one type below x1 and
\* one, typed with a capital, above x1 against a two-type defender, one of
\* whose pairs the chart does not hold
C19_Witness ==
    /\ adv.returned = {"main", "app"}
    /\ adv.attacking = <<"fire", "Water">>
    /\ adv.defending = <<"fire", "ghost">>
    /\ adv.chart = SparseChart
    /\ adv.main /\ adv.app

(***************************************************************************)
(* C20  D1 or R15: in every run of the shipped rules that returns normally *)
(* with max_loops >= 1 on an input without a best_move key, exactly one of *)
(* D1 and R15 has fired -- R15 iff the candidate list is empty (or         *)
(* absent), D1 iff it is not -- and the final store holds a best_move iff  *)
(* a candidate was supplied; and a run on a store with an empty candidate  *)
(* list that holds both HP values never ends in an exception.              *)
(***************************************************************************)
C20_D1OrR15 ==
    /\ (Returned /\ Shipped /\ max_loops >= 1 /\ ~Has(input, "best_move")) =>
          LET none == Len(Candidates(input)) = 0
          IN  /\ R15 \in fired <=> none
              /\ D1 \in fired <=> ~none
              /\ Cardinality({D1, R15} \cap fired) = 1
              /\ Has(facts, "best_move") <=> ~none
    /\ (Shipped /\ Len(Candidates(input)) = 0
           /\ Has(input, "my_hp_pct") /\ Has(input, "enemy_hp_pct")) =>
          pc # "raised"

\* a single sweep on a store with an empty candidate list: R15 has fired, D1
\* has not, and no best_move is in the store
C20_Witness ==
    /\ Returned /\ Shipped /\ max_loops = 1
    /\ Has(input, "my_moves") /\ input["my_moves"] = <<>>
    /\ R15 \in fired /\ D1 \notin fired
    /\ ~Has(facts, "best_move")

(***************************************************************************)
(* C21  Single-sweep derivation: at every point of every run of the        *)
(* shipped rules, every rule that has fired fired in the first sweep, a    *)
(* second sweep has fired nothing, no third sweep is begun, and the rules  *)
(* of the trace lines stand in the order in which they are declared.       *)
(***************************************************************************)
C21_FirstSweepOnly ==
    Shipped =>
        /\ \A r \in fired : firedAt[r] = 1
        /\ loop = 2 => ~fired_any
        /\ loop <= 2
        /\ \A i \in 1..Len(trace) : \A j \in (i + 1)..Len(trace) :
              Pos(RuleOfLine(trace[i])) < Pos(RuleOfLine(trace[j]))

\* a returned run of two sweeps in which D1 and rules reading best_move fired
C21_Witness ==
    /\ Returned /\ Shipped
    /\ loop = 2
    /\ {D1, R6, R12, R13} \subseteq fired
    /\ Len(trace) >= 5

(***************************************************************************)
(* C22  Fixed point: whenever forward_chain has returned after a sweep     *)
(* that fired nothing (the break of line 46, not the exhausted cap), no    *)
(* rule of the list outside the fired set has a condition that is true in  *)
(* the final store -- each of them evaluates to false there.               *)
(***************************************************************************)
ReturnedByBreak == Returned /\ loop >= 1 /\ ~fired_any

C22_FixedPoint ==
    ReturnedByBreak =>
        \A i \in 1..Len(rules) :
            rules[i] \notin fired => When(rules[i], facts) = "False"

\* a run of test rules that reached its fixed point below the cap: a rule
\* behind the unfired one has fired, and the unfired one was looked at again
\* in the last sweep
C22_Witness ==
    /\ ReturnedByBreak
    /\ ~Shipped
    /\ loop = 2 /\ loop < max_loops
    /\ \E i \in 1..Len(rules) : \E j \in (i + 1)..Len(rules) :
          rules[i] \notin fired /\ rules[j] \in fired

(***************************************************************************)
(* C23  The recommendation list: in a run of the shipped rules on a store  *)
(* without a recommendations key, at every point the list has as many      *)
(* entries as rules other than D1 have fired, its i-th entry is the one of *)
(* the i-th such rule of the trace and carries that rule's priority, and   *)
(* every step leaves the entries the list already has where they are.      *)
(***************************************************************************)
\* the priority the knowledge base gives to a rule's recommendation
PriorityOf(r) ==
    CASE r = R1  -> 80 [] r = R2  -> 95 [] r = R3  -> 90 [] r = R4  -> 50
      [] r = R5  -> 70 [] r = R6  -> 92 [] r = R7  -> 75 [] r = R8  -> 85
      [] r = R9  -> 88 [] r = R10 -> 93 [] r = R11 -> 97 [] r = R12 -> 78
      [] r = R13 -> 89 [] r = R14 -> 60 [] r = R15 -> 40 [] r = R16 -> 65
      [] r = R17 -> 55

\* the short name a recommendation of the model carries for its rule
TagOf(r) ==
    CASE r = R1  -> "R1"  [] r = R2  -> "R2"  [] r = R3  -> "R3"  [] r = R4  -> "R4"
      [] r = R5  -> "R5"  [] r = R6  -> "R6"  [] r = R7  -> "R7"  [] r = R8  -> "R8"
      [] r = R9  -> "R9"  [] r = R10 -> "R10" [] r = R11 -> "R11" [] r = R12 -> "R12"
      [] r = R13 -> "R13" [] r = R14 -> "R14" [] r = R15 -> "R15" [] r = R16 -> "R16"
      [] r = R17 -> "R17"

\* the rules other than D1 in the order of their trace lines
Recommenders == SelectSeq(trace, LAMBDA line : line # TraceLine(D1))

IsPrefix(s, t) == Len(s) <= Len(t) /\ SubSeq(t, 1, Len(s)) = s

RecosMatchFired ==
    (Shipped /\ ~Has(input, "recommendations")) =>
        /\ Len(Recos(facts)) = Cardinality(fired \ {D1})
        /\ Len(Recos(facts)) = Len(Recommenders)
        /\ \A i \in 1..Len(Recos(facts)) :
              LET r == RuleOfLine(Recommenders[i])
              IN  /\ Recos(facts)[i].text[1] = TagOf(r)
                  /\ Recos(facts)[i].priority = PriorityOf(r)

C23_RecosAppendOnly ==
    /\ []RecosMatchFired
    /\ [][(Shipped /\ ~Has(input, "recommendations")) =>
            IsPrefix(Recos(facts), Recos(facts'))]_vars

\* a returned run whose list holds several entries, with D1 among the fired
C23_Witness ==
    /\ Returned /\ Shipped /\ ~Has(input, "recommendations")
    /\ D1 \in fired
    /\ Len(Recos(facts)) >= 4
    /\ Len(Recos(facts)) = Cardinality(fired) - 1

(***************************************************************************)
(* C24  R13 and its companions: at every point of every run of the shipped *)
(* rules at which R13 has fired, R12 and R6 have fired as well, and none   *)
(* of R7, R8, R9 has; as R13 is declared behind all five and no rule fires *)
(* after the first sweep, this is so for the whole run.                    *)
(***************************************************************************)
C24_R13Companions ==
    (Shipped /\ R13 \in fired) =>
        /\ R12 \in fired /\ R6 \in fired
        /\ R7 \notin fired /\ R8 \notin fired /\ R9 \notin fired

\* a returned run in which R13 fired, own HP at the lower end of R13's range
\* and a defensive move at hand
C24_Witness ==
    /\ Returned /\ Shipped
    /\ R13 \in fired
    /\ input["my_hp_pct"] = 50
    /\ Truthy(input, "has_defensive_move")
    /\ {R6, R12} \subseteq fired
    /\ fired \cap {R7, R8, R9} = {}

(***************************************************************************)
(* C25  The two copies of has_type_advantage agree: for every attacker     *)
(* type list, defender type list and chart, empty lists included, the      *)
(* command-line copy (no guard) and the web-form copy (guard on empty      *)
(* lists) return the same boolean.                                         *)
(***************************************************************************)
C25_CopiesAgree ==
    adv.returned = {"main", "app"} => adv.main = adv.app

\* both copies have answered for an empty defender list and a non-empty
\* attacker list: the guard answers in one, the empty product 1.0 in the other
C25_Witness ==
    /\ adv.returned = {"main", "app"}
    /\ adv.attacking = <<"Water", "fire">>
    /\ adv.defending = <<>>
    /\ adv.chart = FullChart
    /\ ~adv.main /\ ~adv.app

(***************************************************************************)
(* C26  A second call on the returned store.  As written -- D1 does not    *)
(* fire again and best_move is unchanged, every other rule that fired in   *)
(* the first call fires again, and the recommendation list is doubled --   *)
(* the statement fails in its last part for a store that held              *)
(* recommendations before the first call: those are not appended again, so *)
(* a list of k + n entries becomes one of k + 2n.                          *)
(***************************************************************************)
SecondCallReturned == Returned /\ Shipped /\ call = 2

\* best_move is in the two stores alike
SameBestMove(f, g) ==
    /\ Has(f, "best_move") <=> Has(g, "best_move")
    /\ Has(f, "best_move") => f["best_move"] = g["best_move"]

RefiredWithoutD1 ==
    /\ D1 \notin fired
    /\ SameBestMove(facts, prev.facts)
    /\ fired = prev.fired \ {D1}

C26_ListDoubled ==
    SecondCallReturned =>
        /\ RefiredWithoutD1
        /\ Recos(facts) = Recos(prev.facts) \o Recos(prev.facts)

(***************************************************************************)
(* C26 amended: after a second call (same rules, same max_loops) on the    *)
(* store a first call returned, D1 has not fired again and best_move is as *)
(* the first call left it, the rules fired are those of the first call     *)
(* other than D1, and the recommendation list is the first call's list     *)
(* followed by a second copy of the entries the first call appended; if    *)
(* the store held no recommendations key before the first call, the list   *)
(* is thereby doubled.  Every other key of the store is as it was.         *)
(***************************************************************************)
\* the entries the first call appended to the list it found
AppendedByFirst ==
    SubSeq(Recos(prev.facts), Len(Recos(input)) + 1, Len(Recos(prev.facts)))

C26_SecondCall ==
    SecondCallReturned =>
        /\ RefiredWithoutD1
        /\ Recos(facts) = Recos(prev.facts) \o AppendedByFirst
        /\ ~Has(input, "recommendations") =>
              Recos(facts) = Recos(prev.facts) \o Recos(prev.facts)
        /\ DOMAIN facts = DOMAIN prev.facts
        /\ \A k \in DOMAIN facts \ {"recommendations"} : facts[k] = prev.facts[k]

\* a second call after a first one in which D1 and four other rules fired on
\* a store without recommendations: the list has doubled
C26_Witness ==
    /\ SecondCallReturned
    /\ ~Has(input, "recommendations")
    /\ D1 \in prev.fired /\ D1 \notin fired
    /\ Cardinality(fired) >= 4
    /\ Len(Recos(facts)) = 2 * Len(Recos(prev.facts))
    /\ Len(Recos(prev.facts)) = Cardinality(fired)

====
